---------------------------- MODULE Spec2Model ----------------------------
(***************************************************************************)
(* Model of the Strava OAuth2 authorization-code client (class Client).    *)
(*                                                                         *)
(* A JavaScript string is a sequence of one-character strings, so that     *)
(* join, split, URL parsing and query extraction are computed character    *)
(* by character.  A JavaScript value that may be undefined, null, a string *)
(* or a number is a tagged record [t |-> type, v |-> value].               *)
(***************************************************************************)
EXTENDS Integers, Sequences, FiniteSets, TLC

VARIABLES
    client,       \* this.config of the constructed Client, or NoClient
    ctor,         \* the last `new Client(config)`: its argument and outcome
    pc,           \* "idle" | "await_post" (suspended on axios.post) | "done"
    op,           \* the public method the current call entered through
    req_url,      \* argument of getToken
    url,          \* the URL object built by getToken
    paramObject,  \* the {state, code, scope} record built by getToken
    param_object, \* the argument received by getTokenFromObject
    scopes,       \* local `scopes` of getTokenFromObject
    requests,     \* token-exchange requests issued by the current call
    response,     \* settlement of the pending axios.post promise
    tokens,       \* Token objects constructed by the current call
    result        \* what the current call returned or threw

vars == <<client, ctor, pc, op, req_url, url, paramObject, param_object,
          scopes, requests, response, tokens, result>>

-----------------------------------------------------------------------------
(* Bounds *)

\* longest scopes array of a configuration
MaxScopes == 2
\* largest number of scopes the provider lists in a granted scope string
MaxGranted == 2

-----------------------------------------------------------------------------
(* JavaScript values *)

Undefined == [t |-> "undefined"]
Null == [t |-> "null"]
Str(s) == [t |-> "string", v |-> s]
Num(n) == [t |-> "number", v |-> n]

\* JavaScript truthiness, as used by `!config.clientId`
Truthy(val) ==
    CASE val.t = "undefined" -> FALSE
      [] val.t = "null" -> FALSE
      [] val.t = "string" -> val.v # <<>>
      [] val.t = "number" -> val.v # 0

Digits == <<"0", "1", "2", "3", "4", "5", "6", "7", "8", "9">>

RECURSIVE NumberToString(_)
NumberToString(n) ==
    IF n < 10 THEN <<Digits[n + 1]>>
    ELSE NumberToString(n \div 10) \o <<Digits[(n % 10) + 1]>>

\* value.toString() of a string or a non-negative integer
toString(val) == IF val.t = "number" THEN NumberToString(val.v) ELSE val.v

-----------------------------------------------------------------------------
(* String primitives *)

\* String.prototype.indexOf, 1-based; 0 when c does not occur
IndexOf(s, c) ==
    IF \E i \in 1..Len(s) : s[i] = c
    THEN CHOOSE i \in 1..Len(s) : s[i] = c /\ \A j \in 1..(i - 1) : s[j] # c
    ELSE 0

\* String.prototype.includes
Contains(s, t) ==
    \E i \in 0..(Len(s) - Len(t)) : SubSeq(s, i + 1, i + Len(t)) = t

StartsWith(s, t) == Len(s) >= Len(t) /\ SubSeq(s, 1, Len(t)) = t

\* String.prototype.split with a one-character separator
RECURSIVE Split(_, _)
Split(s, sep) ==
    LET i == IndexOf(s, sep) IN
    IF i = 0 THEN <<s>>
    ELSE <<SubSeq(s, 1, i - 1)>> \o Split(SubSeq(s, i + 1, Len(s)), sep)

\* Array.prototype.join
RECURSIVE Join(_, _)
Join(parts, sep) ==
    IF parts = <<>> THEN <<>>
    ELSE IF Len(parts) = 1 THEN parts[1]
    ELSE parts[1] \o sep \o Join(Tail(parts), sep)

\* Array.prototype.includes
Includes(arr, x) == \E j \in 1..Len(arr) : arr[j] = x

-----------------------------------------------------------------------------
(* Program constants *)

RESPONSE_TYPE_CODE == <<"c", "o", "d", "e">>
APPROVAL_PROMPT_AUTO == <<"a", "u", "t", "o">>
GRANT_TYPE_AUTHORIZATION_CODE ==
    <<"a", "u", "t", "h", "o", "r", "i", "z", "a", "t", "i", "o", "n", "_",
      "c", "o", "d", "e">>
CLIENT_ID == <<"c", "l", "i", "e", "n", "t", "_", "i", "d">>
REDIRECT_URI == <<"r", "e", "d", "i", "r", "e", "c", "t", "_", "u", "r", "i">>
RESPONSE_TYPE ==
    <<"r", "e", "s", "p", "o", "n", "s", "e", "_", "t", "y", "p", "e">>
APPROVAL_PROMPT ==
    <<"a", "p", "p", "r", "o", "v", "a", "l", "_", "p", "r", "o", "m", "p", "t">>
SCOPE == <<"s", "c", "o", "p", "e">>
\* `STATE` is a reserved word of TLA+
STATE_ == <<"s", "t", "a", "t", "e">>
CODE == <<"c", "o", "d", "e">>
PLACEHOLDER_URL ==
    <<"h", "t", "t", "p", ":", "/", "/", "l", "o", "c", "a", "l", "h", "o", "s", "t">>

\* The Scope type: the provider's enumerated scope identifiers
read == <<"r", "e", "a", "d">>
activity_read_all ==
    <<"a", "c", "t", "i", "v", "i", "t", "y", ":", "r", "e", "a", "d", "_",
      "a", "l", "l">>
Scope == {read, activity_read_all}

\* Default configuration: the provider's fixed endpoint URIs
defaultConfig ==
    [authorizationUri |->
        <<"h", "t", "t", "p", "s", ":", "/", "/", "w", "w", "w", ".", "s", "t",
          "r", "a", "v", "a", ".", "c", "o", "m", "/", "o", "a", "u", "t", "h",
          "/", "a", "u", "t", "h", "o", "r", "i", "z", "e">>,
     tokenUri |->
        <<"h", "t", "t", "p", "s", ":", "/", "/", "w", "w", "w", ".", "s", "t",
          "r", "a", "v", "a", ".", "c", "o", "m", "/", "o", "a", "u", "t", "h",
          "/", "t", "o", "k", "e", "n">>]

-----------------------------------------------------------------------------
(* Client.scopesToString, Client.stringToScopes *)

\* Mutant: the scopes joined with a comma and a space
scopesToString_CommaSpace(scopeArr) == Join(scopeArr, <<",", " ">>)

scopesToString(scopeArr) == Join(scopeArr, <<",">>)

\* Mutant: empty pieces filtered out of the split
stringToScopes_DropEmpty(scope_string) ==
    SelectSeq(Split(scope_string, ","), LAMBDA piece : piece # <<>>)

stringToScopes(scope_string) == Split(scope_string, ",")

-----------------------------------------------------------------------------
(* Client.validateConfig, Client.constructor *)

\* Mutant: the client secret is not checked
validateConfig_NoSecretCheck(config) ==
    IF ~Truthy(config.clientId) THEN "client_id must be specified" ELSE "ok"

\* validateConfig: "ok" when it returns true, otherwise the message it throws
validateConfig(config) ==
    IF ~Truthy(config.clientId) THEN "client_id must be specified"
    ELSE IF ~Truthy(config.clientSecret) THEN "client_secret must be specified"
    ELSE "ok"

\* { ...defaultConfig, ...config }: a key the caller supplies wins
MergeConfig(config) ==
    [k \in DOMAIN defaultConfig \cup DOMAIN config |->
        IF k \in DOMAIN config THEN config[k] ELSE defaultConfig[k]]

NoClient == [none |-> TRUE]

-----------------------------------------------------------------------------
(* new URL(input, base) and URL.searchParams.get, for http(s) URLs whose     *)
(* text holds no percent escape, "+", backslash or whitespace                *)

Letters ==
    {"a", "b", "c", "d", "e", "f", "g", "h", "i", "j", "k", "l", "m", "n",
     "o", "p", "q", "r", "s", "t", "u", "v", "w", "x", "y", "z"}

\* The index of the ":" ending a leading scheme, 0 when the input has none
SchemeEnd(s) ==
    LET i == IndexOf(s, ":") IN
    IF i > 1 /\ \A j \in 1..(i - 1) : s[j] \in Letters THEN i ELSE 0

\* The input without its fragment
StripFragment(s) ==
    LET i == IndexOf(s, "#") IN IF i = 0 THEN s ELSE SubSeq(s, 1, i - 1)

\* Splits "host/path?query" at the end of the host
HostEnd(s) ==
    LET i == IndexOf(s, "/")
        j == IndexOf(s, "?")
    IN  IF i = 0 /\ j = 0 THEN Len(s) + 1
        ELSE IF i = 0 THEN j
        ELSE IF j = 0 THEN i
        ELSE IF i < j THEN i ELSE j

\* Splits "path?query" into pathname and query
PathAndQuery(origin, rest) ==
    LET q == IndexOf(rest, "?")
        path == IF q = 0 THEN rest ELSE SubSeq(rest, 1, q - 1)
    IN  [valid |-> TRUE,
         origin |-> origin,
         pathname |-> IF path = <<>> THEN <<"/">> ELSE path,
         query |-> IF q = 0 THEN <<>> ELSE SubSeq(rest, q + 1, Len(rest))]

InvalidURL == [valid |-> FALSE]

\* "//host/path?query" read with the given scheme
ParseAuthority(scheme, s) ==
    LET afterSlashes == SubSeq(s, 3, Len(s))
        h == HostEnd(afterSlashes)
        host == SubSeq(afterSlashes, 1, h - 1)
    IN  IF host = <<>> THEN InvalidURL
        ELSE PathAndQuery(scheme \o <<":", "/", "/">> \o host,
                          SubSeq(afterSlashes, h, Len(afterSlashes)))

\* new URL(input) of an absolute input
ParseAbsolute(input) ==
    LET s == StripFragment(input)
        e == SchemeEnd(s)
        rest == SubSeq(s, e + 1, Len(s))
    IN  IF e = 0 \/ ~StartsWith(rest, <<"/", "/">>) THEN InvalidURL
        ELSE ParseAuthority(SubSeq(s, 1, e - 1), rest)

\* Mutant: new URL(input), the base forgotten
ParseURL_NoBase(input, base) == ParseAbsolute(input)

\* new URL(input, base): an input with a scheme ignores the base, a
\* scheme-relative one takes the base's scheme, any other takes its origin
ParseURL(input, base) ==
    LET s == StripFragment(input)
        b == ParseAbsolute(base)
    IN  IF SchemeEnd(s) > 0 THEN ParseAbsolute(s)
        ELSE IF StartsWith(s, <<"/", "/">>)
             THEN ParseAuthority(SubSeq(base, 1, SchemeEnd(base) - 1), s)
        ELSE IF StartsWith(s, <<"/">>) THEN PathAndQuery(b.origin, s)
        ELSE IF StartsWith(s, <<"?">>) \/ s = <<>>
             THEN PathAndQuery(b.origin, b.pathname \o s)
        ELSE PathAndQuery(b.origin, <<"/">> \o s)

\* One "name=value" piece of a query: split at its first "="
ParsePair(piece) ==
    LET i == IndexOf(piece, "=") IN
    IF i = 0 THEN [name |-> piece, value |-> <<>>]
    ELSE [name |-> SubSeq(piece, 1, i - 1),
          value |-> SubSeq(piece, i + 1, Len(piece))]

\* The pairs of a query string; empty pieces are skipped
RECURSIVE ParsePairs(_)
ParsePairs(pieces) ==
    IF pieces = <<>> THEN <<>>
    ELSE IF Head(pieces) = <<>> THEN ParsePairs(Tail(pieces))
    ELSE <<ParsePair(Head(pieces))>> \o ParsePairs(Tail(pieces))

\* url.searchParams.get(name): the value of the first pair of that name, or null
SearchParamsGet(u, name) ==
    LET pairs == ParsePairs(Split(u.query, "&")) IN
    IF \E i \in 1..Len(pairs) : pairs[i].name = name
    THEN Str(pairs[CHOOSE i \in 1..Len(pairs) :
                     /\ pairs[i].name = name
                     /\ \A j \in 1..(i - 1) : pairs[j].name # name].value)
    ELSE Null

\* The paramObject literal of getToken
ExtractParams(u) ==
    [state |-> SearchParamsGet(u, STATE_),
     code |-> SearchParamsGet(u, CODE),
     scope |-> SearchParamsGet(u, SCOPE)]

\* assertIsParamObj: a non-empty code and a scope string
IsParamObj(obj) ==
    /\ obj.code.t = "string"
    /\ obj.code.v # <<>>
    /\ obj.scope.t = "string"

-----------------------------------------------------------------------------
(* Client.getAuthorizationUri *)

\* The application/x-www-form-urlencoded byte serialiser of URLSearchParams
FormEncodeChar(c) ==
    CASE c = ":" -> <<"%", "3", "A">>
      [] c = "/" -> <<"%", "2", "F">>
      [] c = "," -> <<"%", "2", "C">>
      [] c = "?" -> <<"%", "3", "F">>
      [] c = "&" -> <<"%", "2", "6">>
      [] c = "=" -> <<"%", "3", "D">>
      [] c = "#" -> <<"%", "2", "3">>
      [] OTHER -> <<c>>

RECURSIVE FormEncode(_)
FormEncode(s) ==
    IF s = <<>> THEN <<>> ELSE FormEncodeChar(Head(s)) \o FormEncode(Tail(s))

\* uri.searchParams.append(name, value), on the serialised query
SearchParamsAppend(query, name, value) ==
    (IF query = <<>> THEN <<>> ELSE query \o <<"&">>)
        \o FormEncode(name) \o <<"=">> \o FormEncode(value)

\* uri.href after the five appends
AuthorizationUri(config) ==
    LET uri == ParseAbsolute(config.authorizationUri)
        q1 == SearchParamsAppend(uri.query, CLIENT_ID, toString(config.clientId))
        q2 == SearchParamsAppend(q1, REDIRECT_URI, config.redirectUri)
        q3 == SearchParamsAppend(q2, RESPONSE_TYPE, RESPONSE_TYPE_CODE)
        q4 == SearchParamsAppend(q3, APPROVAL_PROMPT, APPROVAL_PROMPT_AUTO)
        q5 == SearchParamsAppend(q4, SCOPE, scopesToString(config.scopes))
    IN  uri.origin \o uri.pathname \o <<"?">> \o q5

-----------------------------------------------------------------------------
(* Client.getTokenFromObject: the scope check, the request, the Token *)

\* Mutant: membership alone, the lengths not compared
ScopesGranted_NoLengthCheck(granted, configured) ==
    \A i \in 1..Len(granted) : Includes(configured, granted[i])

\* The check of lines 128-131: true when neither `throw e` is reached
ScopesGranted(granted, configured) ==
    /\ Len(granted) = Len(configured)
    /\ \A i \in 1..Len(granted) : Includes(configured, granted[i])

\* The error `e` built before the check
ScopeError(configured, granted) ==
    [name |-> "ScopeMismatch", requested |-> configured, got |-> granted]

\* The arguments of axios.post
TokenRequest(config, po) ==
    [url |-> config.tokenUri,
     body |-> [client_id |-> config.clientId,
               client_secret |-> config.clientSecret,
               code |-> po.code,
               grant_type |-> GRANT_TYPE_AUTHORIZATION_CODE]]

TokenFields ==
    {"token_type", "expires_at", "expires_in", "refresh_token", "access_token",
     "athlete"}

\* assertValidTokenResponse: every field of TokenResponse is there
IsValidTokenResponse(data) == \A f \in TokenFields : f \in DOMAIN data

\* The Token constructor: six positional arguments kept as six fields
Token(token_type, expires_at, expires_in, refresh_token, access_token, athlete) ==
    [token_type |-> token_type,
     expires_at |-> expires_at,
     expires_in |-> expires_in,
     refresh_token |-> refresh_token,
     access_token |-> access_token,
     athlete |-> athlete]

\* res.data.<field>: undefined when the body has no such field
Get(data, f) == IF f \in DOMAIN data THEN data[f] ELSE Undefined

\* Mutant: the access token and the refresh token passed in each other's place
NewToken_Swapped(data) ==
    Token(Get(data, "token_type"), Get(data, "expires_at"),
          Get(data, "expires_in"), Get(data, "access_token"),
          Get(data, "refresh_token"), Get(data, "athlete"))

\* new Token(res.data.token_type, ..., res.data.athlete)
NewToken(data) ==
    Token(Get(data, "token_type"), Get(data, "expires_at"),
          Get(data, "expires_in"), Get(data, "refresh_token"),
          Get(data, "access_token"), Get(data, "athlete"))

-----------------------------------------------------------------------------
(* Inputs *)

\* All arrays of at most n scopes
ScopeArrays(n) == UNION {[1..k -> Scope] : k \in 0..n}

ClientIds == {Undefined, Str(<<>>), Num(0), Num(7)}
ClientSecrets == {Undefined, Str(<<>>), Str(<<"s", "3", "c">>)}

BaseConfigs ==
    [clientId : ClientIds,
     clientSecret : ClientSecrets,
     redirectUri : {<<"h", "t", "t", "p", ":", "/", "/", "a", "p", "p", "/", "c", "b">>},
     scopes : ScopeArrays(MaxScopes)]

\* A caller may override the token endpoint
WithTokenUri(config) ==
    [k \in DOMAIN config \cup {"tokenUri"} |->
        IF k = "tokenUri"
        THEN <<"h", "t", "t", "p", ":", "/", "/", "i", "d", "p", "/", "t">>
        ELSE config[k]]

ConstructorConfigs == BaseConfigs \cup {WithTokenUri(c) : c \in BaseConfigs}

activity_write ==
    <<"a", "c", "t", "i", "v", "i", "t", "y", ":", "w", "r", "i", "t", "e">>

\* Scope strings a callback may carry: every list of at most MaxGranted
\* scopes (the empty string included), a scope that is not configurable,
\* and a list with a trailing comma
GrantedStrings ==
    {scopesToString(S) : S \in ScopeArrays(MaxGranted)}
        \cup {activity_write, read \o <<",">>}

abc == <<"a", "b", "c">>

\* Arguments of a direct getTokenFromObject call: three strings
ParamObjects ==
    [state : {Str(<<"x">>)},
     code : {Str(abc), Str(<<>>)},
     scope : {Str(g) : g \in GrantedStrings}]

Pair(name, value) == name \o <<"=">> \o value

\* Query strings of callback URLs
Queries ==
    {Join(<<Pair(STATE_, <<"x">>), Pair(CODE, abc), Pair(SCOPE, g)>>, <<"&">>) :
        g \in GrantedStrings}
    \cup
    {<<>>,
     \* no code
     Join(<<Pair(STATE_, <<"x">>), Pair(SCOPE, read)>>, <<"&">>),
     \* an empty code
     Join(<<Pair(STATE_, <<"x">>), Pair(CODE, <<>>), Pair(SCOPE, read)>>, <<"&">>),
     \* no scope
     Join(<<Pair(STATE_, <<"x">>), Pair(CODE, abc)>>, <<"&">>),
     \* no state, another order, a repeated parameter, a fragment
     Join(<<Pair(SCOPE, read), Pair(CODE, abc), Pair(CODE, <<"z">>)>>, <<"&">>)
        \o <<"#", "f">>,
     \* a state value that is itself a URL of the local host
     Join(<<Pair(STATE_, PLACEHOLDER_URL), Pair(CODE, abc), Pair(SCOPE, read)>>,
          <<"&">>)}

CallbackPath == <<"/", "c", "b">>

\* Callback URLs: path-only, on the local host, on another host
CallbackUrls ==
    {prefix \o CallbackPath \o (IF q = <<>> THEN <<>> ELSE <<"?">> \o q) :
        prefix \in {<<>>, PLACEHOLDER_URL,
                    <<"h", "t", "t", "p", "s", ":", "/", "/", "a", "p", "p">>},
        q \in Queries}
    \cup {<<"h", "t", "t", "p", ":", "/", "/">>}

\* Bodies the token endpoint may answer with: every subset of the six
\* fields, and a complete body of other values
SampleResponse ==
    [token_type |-> "Bearer",
     expires_at |-> 1700000000,
     expires_in |-> 21600,
     refresh_token |-> "r1",
     access_token |-> "a1",
     athlete |-> [id |-> 1, username |-> "u"]]

ResponseBodies ==
    {[f \in F |-> SampleResponse[f]] : F \in SUBSET TokenFields}
    \cup {[token_type |-> "Bearer",
           expires_at |-> 1800000000,
           expires_in |-> 3600,
           refresh_token |-> "r2",
           access_token |-> "a2",
           athlete |-> [id |-> 2, username |-> "v"]]}

\* Errors axios.post may reject with
NetworkErrors ==
    {[name |-> "AxiosError", code |-> "ECONNREFUSED"],
     [name |-> "AxiosError", code |-> "ERR_BAD_REQUEST"]}

-----------------------------------------------------------------------------
(* State machine *)

NoParams == [none |-> TRUE]
NoUrl == [none |-> TRUE]
NoResult == [kind |-> "none"]
NoResponse == [kind |-> "none"]
Thrown(e) == [kind |-> "error", error |-> e]

Init ==
    /\ client = NoClient
    /\ ctor = [outcome |-> "none"]
    /\ pc = "idle"
    /\ op = "none"
    /\ req_url = Undefined
    /\ url = NoUrl
    /\ paramObject = NoParams
    /\ param_object = NoParams
    /\ scopes = <<>>
    /\ requests = <<>>
    /\ response = NoResponse
    /\ tokens = <<>>
    /\ result = NoResult

\* new Client(config): validateConfig, then the merge into this.config.
\* A constructor that throws yields no instance.
Construct(config) ==
    /\ client = NoClient
    /\ pc = "idle"
    /\ ctor' = [config |-> config, outcome |-> validateConfig(config)]
    /\ client' = IF validateConfig(config) = "ok" THEN MergeConfig(config)
                 ELSE NoClient
    /\ UNCHANGED <<pc, op, req_url, url, paramObject, param_object, scopes,
                   requests, response, tokens, result>>

\* client.getAuthorizationUri()
GetAuthorizationUri ==
    /\ client # NoClient
    /\ pc = "idle"
    /\ op' = "getAuthorizationUri"
    /\ result' = [kind |-> "uri", uri |-> AuthorizationUri(client)]
    /\ pc' = "done"
    /\ UNCHANGED <<client, ctor, req_url, url, paramObject, param_object,
                   scopes, requests, response, tokens>>

\* getTokenFromObject up to its await (lines 122-139): the scope check, then
\* the post.  A scope that is no string has no split method.
BeginExchange(po) ==
    /\ param_object' = po
    /\ response' = NoResponse
    /\ tokens' = <<>>
    /\ IF po.scope.t # "string"
       THEN /\ scopes' = <<>>
            /\ requests' = <<>>
            /\ result' = Thrown([name |-> "TypeError"])
            /\ pc' = "done"
       ELSE LET granted == stringToScopes(po.scope.v) IN
            /\ scopes' = granted
            /\ IF ScopesGranted(granted, client.scopes)
               THEN /\ requests' = <<TokenRequest(client, po)>>
                    /\ result' = NoResult
                    /\ pc' = "await_post"
               ELSE /\ requests' = <<>>
                    /\ result' = Thrown(ScopeError(client.scopes, granted))
                    /\ pc' = "done"

\* client.getTokenFromObject(po), called directly
GetTokenFromObject(po) ==
    /\ client # NoClient
    /\ pc = "idle"
    /\ op' = "getTokenFromObject"
    /\ BeginExchange(po)
    /\ UNCHANGED <<client, ctor, req_url, url, paramObject>>

\* A call that threw before getTokenFromObject was entered
FailEarly(e) ==
    /\ param_object' = NoParams
    /\ scopes' = <<>>
    /\ requests' = <<>>
    /\ response' = NoResponse
    /\ tokens' = <<>>
    /\ result' = Thrown(e)
    /\ pc' = "done"

\* Mutant: the record handed on without assertIsParamObj
GetToken_NoAssert(u) ==
    /\ client # NoClient
    /\ pc = "idle"
    /\ op' = "getToken"
    /\ req_url' = Str(u)
    /\ LET parsed == ParseURL(u, PLACEHOLDER_URL) IN
       IF ~parsed.valid
       THEN /\ url' = parsed
            /\ paramObject' = NoParams
            /\ FailEarly([name |-> "TypeError"])
       ELSE /\ url' = parsed
            /\ paramObject' = ExtractParams(parsed)
            /\ BeginExchange(ExtractParams(parsed))
    /\ UNCHANGED <<client, ctor>>

\* client.getToken(u) up to the await inside getTokenFromObject
GetToken(u) ==
    /\ client # NoClient
    /\ pc = "idle"
    /\ op' = "getToken"
    /\ req_url' = Str(u)
    /\ LET parsed == ParseURL(u, PLACEHOLDER_URL) IN
       IF ~parsed.valid
       THEN /\ url' = parsed
            /\ paramObject' = NoParams
            /\ FailEarly([name |-> "TypeError"])
       ELSE /\ url' = parsed
            /\ paramObject' = ExtractParams(parsed)
            /\ IF IsParamObj(ExtractParams(parsed))
               THEN BeginExchange(ExtractParams(parsed))
               ELSE FailEarly([name |-> "MalformedCallback"])
    /\ UNCHANGED <<client, ctor>>

\* Mutant: the Token built from the body without validating it
PostResolve_Unvalidated(data) ==
    /\ pc = "await_post"
    /\ response' = [kind |-> "resolved", data |-> data]
    /\ tokens' = Append(tokens, NewToken(data))
    /\ result' = [kind |-> "token", token |-> NewToken(data)]
    /\ pc' = "done"
    /\ UNCHANGED <<client, ctor, op, req_url, url, paramObject, param_object,
                   scopes, requests>>

\* The post resolves with a body: validation, then the Token (lines 141-152)
PostResolve(data) ==
    /\ pc = "await_post"
    /\ response' = [kind |-> "resolved", data |-> data]
    /\ IF IsValidTokenResponse(data)
       THEN /\ tokens' = Append(tokens, NewToken(data))
            /\ result' = [kind |-> "token", token |-> NewToken(data)]
       ELSE /\ tokens' = tokens
            /\ result' = Thrown([name |-> "InvalidTokenResponse"])
    /\ pc' = "done"
    /\ UNCHANGED <<client, ctor, op, req_url, url, paramObject, param_object,
                   scopes, requests>>

\* Mutant: a rejected post is sent once more before giving up
PostReject_Retry(err) ==
    /\ pc = "await_post"
    /\ response' = [kind |-> "rejected", error |-> err]
    /\ IF Len(requests) < 2
       THEN /\ requests' = Append(requests, requests[1])
            /\ result' = result
            /\ pc' = "await_post"
       ELSE /\ requests' = requests
            /\ result' = Thrown(err)
            /\ pc' = "done"
    /\ UNCHANGED <<client, ctor, op, req_url, url, paramObject, param_object,
                   scopes, tokens>>

\* The post rejects: the await rethrows and nothing catches
PostReject(err) ==
    /\ pc = "await_post"
    /\ response' = [kind |-> "rejected", error |-> err]
    /\ result' = Thrown(err)
    /\ pc' = "done"
    /\ UNCHANGED <<client, ctor, op, req_url, url, paramObject, param_object,
                   scopes, requests, tokens>>

\* The caller takes the outcome; the client keeps nothing of the call
Return ==
    /\ pc = "done"
    /\ pc' = "idle"
    /\ op' = "none"
    /\ req_url' = Undefined
    /\ url' = NoUrl
    /\ paramObject' = NoParams
    /\ param_object' = NoParams
    /\ scopes' = <<>>
    /\ requests' = <<>>
    /\ response' = NoResponse
    /\ tokens' = <<>>
    /\ result' = NoResult
    /\ UNCHANGED <<client, ctor>>

Next ==
    \/ \E config \in ConstructorConfigs : Construct(config)
    \/ GetAuthorizationUri
    \/ \E po \in ParamObjects : GetTokenFromObject(po)
    \/ \E u \in CallbackUrls : GetToken(u)
    \/ \E data \in ResponseBodies : PostResolve(data)
    \/ \E err \in NetworkErrors : PostReject(err)
    \/ Return

Spec == Init /\ [][Next]_vars

-----------------------------------------------------------------------------
(* Properties *)

Range(seq) == {seq[i] : i \in 1..Len(seq)}

\* getTokenFromObject was entered by the current call, with a scope string
InExchange == param_object # NoParams /\ param_object.scope.t = "string"

\* parts is s split on commas: no part holds a comma, and the parts with
\* commas between them spell s
IsCommaSplit(parts, s) ==
    /\ Len(parts) >= 1
    /\ \A i \in 1..Len(parts) : ~Contains(parts[i], <<",">>)
    /\ Join(parts, <<",">>) = s

IsScopeMismatch(r) == r.kind = "error" /\ r.error.name = "ScopeMismatch"

C7_RequestOnlyForEquivalentScopes ==
    (InExchange /\ requests # <<>>) => Range(scopes) = Range(client.scopes)

\* C9: for a non-empty array S of scope identifiers, stringToScopes applied
\* to scopesToString(S) gives S back: a call whose scope string is the
\* configured scopes joined has parsed exactly the configured scopes.
C9_RoundTrip ==
    (/\ InExchange
     /\ client.scopes # <<>>
     /\ param_object.scope.v = scopesToString(client.scopes))
        => scopes = client.scopes

\* C9 witness: a two-scope array has made the round trip
C9_Witness ==
    /\ InExchange
    /\ client.scopes = <<activity_read_all, read>>
    /\ param_object.scope.v = scopesToString(client.scopes)
    /\ scopes = <<activity_read_all, read>>

\* C10: with an empty configured scopes array every getTokenFromObject call,
\* the one with the empty scope string included, has ended in the
\* scope-mismatch error without a request, the parsed scopes never being
\* empty (the empty string parses to the one empty scope).
C10_EmptyConfigAlwaysMismatch ==
    (InExchange /\ client.scopes = <<>>) =>
        /\ Len(scopes) >= 1
        /\ (param_object.scope.v = <<>> => scopes = << <<>> >>)
        /\ pc = "done"
        /\ IsScopeMismatch(result)
        /\ requests = <<>>

\* C10 witness: the empty scope string against the empty configuration
C10_Witness ==
    /\ InExchange
    /\ client.scopes = <<>>
    /\ param_object.scope.v = <<>>
    /\ IsScopeMismatch(result)

C3_InvalidResponseBuildsNoToken ==
    /\ (/\ response.kind = "resolved"
        /\ ~(TokenFields \subseteq DOMAIN response.data))
            => /\ pc = "done"
               /\ result.kind = "error"
               /\ result.error.name = "InvalidTokenResponse"
               /\ tokens = <<>>
    /\ tokens # <<>> =>
            /\ response.kind = "resolved"
            /\ TokenFields \subseteq DOMAIN response.data

\* C3 witness: a body without access_token, refused
C3_Witness ==
    /\ response.kind = "resolved"
    /\ DOMAIN response.data = TokenFields \ {"access_token"}
    /\ result.kind = "error"
    /\ result.error.name = "InvalidTokenResponse"

\* C4: a getToken call whose callback URL has no code, an empty code or no
\* scope parameter has ended in the malformed-callback error, without
\* entering getTokenFromObject and without a token-exchange request.
C4_MalformedCallbackBeforeExchange ==
    (/\ op = "getToken"
     /\ paramObject # NoParams
     /\ \/ paramObject.code = Null
        \/ paramObject.code = Str(<<>>)
        \/ paramObject.scope = Null)
        => /\ pc = "done"
           /\ result.kind = "error"
           /\ result.error.name = "MalformedCallback"
           /\ param_object = NoParams
           /\ requests = <<>>

\* C4 witness: an empty code beside a scope that is configured
C4_Witness ==
    /\ op = "getToken"
    /\ paramObject # NoParams
    /\ paramObject.code = Str(<<>>)
    /\ paramObject.scope = Str(read)
    /\ client.scopes = <<read>>
    /\ result.kind = "error"
    /\ result.error.name = "MalformedCallback"

\* C5: constructing a Client without a truthy clientId or clientSecret
\* throws the configuration error and leaves no client, so no method call
\* and no token-exchange request is ever made with such a configuration;
\* with both present validateConfig passes and the client holds the
\* configuration.
C5_InvalidConfigNeverUsed ==
    /\ ctor.outcome # "none" =>
        IF Truthy(ctor.config.clientId) /\ Truthy(ctor.config.clientSecret)
        THEN /\ ctor.outcome = "ok"
             /\ client # NoClient
             /\ \A k \in DOMAIN ctor.config : client[k] = ctor.config[k]
        ELSE /\ ctor.outcome \in {"client_id must be specified",
                                  "client_secret must be specified"}
             /\ client = NoClient
    /\ client # NoClient =>
        Truthy(client.clientId) /\ Truthy(client.clientSecret)
    /\ op # "none" => client # NoClient
    /\ \A i \in 1..Len(requests) :
        /\ Truthy(requests[i].body.client_id)
        /\ Truthy(requests[i].body.client_secret)

\* C5 witness: a construction refused for its empty client secret
C5_Witness ==
    /\ ctor.outcome = "client_secret must be specified"
    /\ ctor.config.clientId = Num(7)
    /\ ctor.config.clientSecret = Str(<<>>)
    /\ client = NoClient

\* C6: a call issues at most one token-exchange request; when that request
\* fails with a network error the call has ended with that very error,
\* after one request and without a Token.
C6_SingleAttempt ==
    /\ Len(requests) <= 1
    /\ response.kind = "rejected" =>
        /\ pc = "done"
        /\ result = [kind |-> "error", error |-> response.error]
        /\ Len(requests) = 1
        /\ tokens = <<>>

\* C6 witness: a refused connection surfaced by getToken
C6_Witness ==
    /\ op = "getToken"
    /\ response.kind = "rejected"
    /\ result.kind = "error"
    /\ result.error = [name |-> "AxiosError", code |-> "ECONNREFUSED"]
    /\ Len(requests) = 1

IsPathOnly(s) == StartsWith(s, <<"/">>) /\ ~StartsWith(s, <<"/", "/">>)

HoldsPlaceholder(val) == val.t = "string" /\ Contains(val.v, PLACEHOLDER_URL)

\* C8: for a path-only callback URL P, getToken(P) has extracted the record
\* that the absolute URL (the placeholder origin followed by P) yields; the
\* placeholder origin is in no field of the record unless P itself spells
\* it, and the request is sent to the configured token URI with a body of
\* client_id, client_secret, code and grant_type "authorization_code" only.
C8_PlaceholderNeverLeaks ==
    (op = "getToken" /\ IsPathOnly(req_url.v)) =>
        /\ url.valid
        /\ paramObject =
              ExtractParams(ParseURL(PLACEHOLDER_URL \o req_url.v,
                                     PLACEHOLDER_URL))
        /\ (\E f \in DOMAIN paramObject : HoldsPlaceholder(paramObject[f]))
              => Contains(req_url.v, PLACEHOLDER_URL)
        /\ \A i \in 1..Len(requests) :
              /\ requests[i].url = client.tokenUri
              /\ requests[i].body =
                    [client_id |-> client.clientId,
                     client_secret |-> client.clientSecret,
                     code |-> paramObject.code,
                     grant_type |-> GRANT_TYPE_AUTHORIZATION_CODE]
              /\ ~Contains(req_url.v, PLACEHOLDER_URL) =>
                    /\ ~Contains(requests[i].url, PLACEHOLDER_URL)
                    /\ \A k \in DOMAIN requests[i].body :
                          ~HoldsPlaceholder(
                              IF k = "grant_type"
                              THEN Str(requests[i].body[k])
                              ELSE IF requests[i].body[k].t = "number"
                              THEN Str(toString(requests[i].body[k]))
                              ELSE requests[i].body[k])

\* C8 witness: a path-only callback parsed against the placeholder, its
\* request issued
C8_Witness ==
    /\ op = "getToken"
    /\ IsPathOnly(req_url.v)
    /\ url.origin = PLACEHOLDER_URL
    /\ paramObject.code = Str(abc)
    /\ Len(requests) = 1

=============================================================================
